---------------------------- MODULE Spec2Model ----------------------------
(***************************************************************************)
(* Model of the Neurolucida ASC lexer (NeurolucidaLexer, build_lexer) of   *)
(* MorphIO: the rule table given to lexertl, the longest-match lookup, and *)
(* the one-token-lookahead cursor built on two lexertl iterators; of the   *)
(* exception classes the Python module registers; and of the stream mode   *)
(* of brion::SpikeReport as its declaration documents it.                  *)
(***************************************************************************)
EXTENDS Integers, Sequences, FiniteSets, TLC

(***************************************************************************)
(* Bounds of the model.                                                    *)
(***************************************************************************)
\* longest input, in characters, given to start_parse
MaxLen == 4
\* number of start_parse calls on one lexer object
MaxParses == 2
\* number of threads calling start_parse concurrently
NThreads == 2
\* most digits that follow a marker name in an input
MaxDigits == 2
\* deepest nesting of a caller's try statements
MaxHandlers == 2
\* largest time stamp of a spike, in milliseconds
MaxTime == 2
\* most spikes a source sends
MaxSpikes == 3
\* longest input, in characters, made of trivia and a few tokens
MaxScan == 3

(***************************************************************************)
(* Characters and character classes of the rule patterns.  A character is  *)
(* a one-character string; an input is a sequence of characters.           *)
(***************************************************************************)
Digit == {"0", "1", "2", "3", "4", "5", "6", "7", "8", "9"}

Lower == {"a", "b", "c", "d", "e", "f", "g", "h", "i", "j", "k", "l", "m",
          "n", "o", "p", "q", "r", "s", "t", "u", "v", "w", "x", "y", "z"}

Upper == {"A", "B", "C", "D", "E", "F", "G", "H", "I", "J", "K", "L", "M",
          "N", "O", "P", "Q", "R", "S", "T", "U", "V", "W", "X", "Y", "Z"}

\* one element of a pattern: k is its repetition ("one", "opt", "star",
\* "plus") over the class cs (negated when neg), or "optseq" for an optional
\* parenthesised group whose elements are sub
El(k, neg, cs) == [k |-> k, neg |-> neg, cs |-> cs, sub |-> <<>>]
One(cs)     == El("one", FALSE, cs)
\* ' ?' written as ' *'
Opt_any(cs) == El("star", FALSE, cs)
Opt(cs)     == El("opt", FALSE, cs)
Star(cs)    == El("star", FALSE, cs)
Plus(cs)    == El("plus", FALSE, cs)
StarNot(cs) == El("star", TRUE, cs)
OptSeq(sub) == [k |-> "optseq", neg |-> FALSE, cs |-> {}, sub |-> sub]

\* a literal word: one element per character
Lit(w) == [i \in 1..Len(w) |-> One({w[i]})]

\* a marker name followed by [0-9]*
Marker(w) == [re |-> Lit(w) \o <<Star(Digit)>>, id |-> "MARKER"]

Blank == {" ", "\t", "\r"}

(***************************************************************************)
(* The rules pushed by build_lexer, in declaration order.                  *)
(***************************************************************************)
Rules ==
  << [re |-> <<One({"\n"})>>,                               id |-> "NEWLINE"],
     [re |-> <<Plus(Blank)>>,                               id |-> "WS"],
     [re |-> <<One({";"}), StarNot({"\n"})>>,               id |-> "COMMENT"],
     [re |-> <<One({"("})>>,                                id |-> "LPAREN"],
     [re |-> <<One({")"})>>,                                id |-> "RPAREN"],
     [re |-> <<One({"<"}), Star(Blank), One({"("})>>,       id |-> "LSPINE"],
     [re |-> <<One({")"}), One({">"})>>,                    id |-> "RSPINE"],
     [re |-> <<One({","})>>,                                id |-> "COMMA"],
     [re |-> <<One({"|"})>>,                                id |-> "PIPE"],
     [re |-> Lit(<<"C","o","l","o","r">>),                  id |-> "COLOR"],
     [re |-> Lit(<<"F","o","n","t">>),                      id |-> "FONT"],
     [re |-> <<One({"A","a"})>> \o Lit(<<"x","o","n">>),    id |-> "AXON"],
     [re |-> <<One({"A","a"})>> \o Lit(<<"p","i","c","a","l">>),
                                                            id |-> "APICAL"],
     [re |-> <<One({"D","d"})>> \o Lit(<<"e","n","d","r","i","t","e">>),
                                                            id |-> "DENDRITE"],
     [re |-> <<One({"C","c"})>> \o Lit(<<"e","l","l">>) \o <<Opt({" "})>>
             \o <<One({"B","b"})>> \o Lit(<<"o","d","y">>), id |-> "CELLBODY"],
     Marker(<<"D","o","t">>),
     Marker(<<"P","l","u","s">>),
     Marker(<<"C","r","o","s","s">>),
     Marker(<<"S","p","l","a","t">>),
     Marker(<<"F","l","o","w","e","r">>),
     Marker(<<"C","i","r","c","l","e">>),
     Marker(<<"F","l","o","w","e","r">>),
     Marker(<<"T","r","i","S","t","a","r">>),
     Marker(<<"O","p","e","n","S","t","a","r">>),
     Marker(<<"A","s","t","e","r","i","s","k">>),
     Marker(<<"S","n","o","w","F","l","a","k","e">>),
     Marker(<<"O","p","e","n","C","i","r","c","l","e">>),
     Marker(<<"S","h","a","d","e","d","S","t","a","r">>),
     Marker(<<"F","i","l","l","e","d","S","t","a","r">>),
     Marker(<<"T","e","x","a","c","o","S","t","a","r">>),
     Marker(<<"M","o","n","e","y","G","r","e","e","n">>),
     Marker(<<"D","a","r","k","Y","e","l","l","o","w">>),
     Marker(<<"O","p","e","n","S","q","u","a","r","e">>),
     Marker(<<"O","p","e","n","D","i","a","m","o","n","d">>),
     Marker(<<"C","i","r","c","l","e","A","r","r","o","w">>),
     Marker(<<"C","i","r","c","l","e","C","r","o","s","s">>),
     Marker(<<"O","p","e","n","Q","u","a","d","S","t","a","r">>),
     Marker(<<"D","o","u","b","l","e","C","i","r","c","l","e">>),
     Marker(<<"F","i","l","l","e","d","S","q","u","a","r","e">>),
     Marker(<<"M","a","l","t","e","s","e","C","r","o","s","s">>),
     Marker(<<"F","i","l","l","e","d","C","i","r","c","l","e">>),
     Marker(<<"F","i","l","l","e","d","D","i","a","m","o","n","d">>),
     Marker(<<"F","i","l","l","e","d","Q","u","a","d","S","t","a","r">>),
     Marker(<<"O","p","e","n","U","p","T","r","i","a","n","g","l","e">>),
     Marker(<<"F","i","l","l","e","d","U","p","T","r","i","a","n","g","l","e">>),
     Marker(<<"O","p","e","n","D","o","w","n","T","r","i","a","n","g","l","e">>),
     Marker(<<"F","i","l","l","e","d","D","o","w","n","T","r","i","a","n","g","l","e">>),
     [re |-> Lit(<<"G","e","n","e","r","a","t","e","d">>),  id |-> "GENERATED"],
     [re |-> Lit(<<"H","i","g","h">>),                      id |-> "HIGH"],
     [re |-> Lit(<<"I","n","c","o","m","p","l","e","t","e">>),
                                                            id |-> "INCOMPLETE"],
     [re |-> Lit(<<"L","o","w">>),                          id |-> "LOW"],
     [re |-> Lit(<<"N","o","r","m","a","l">>),              id |-> "NORMAL"],
     [re |-> Lit(<<"M","i","d","p","o","i","n","t">>),      id |-> "MIDPOINT"],
     [re |-> Lit(<<"O","r","i","g","i","n">>),              id |-> "ORIGIN"],
     [re |-> <<One({"\""}), StarNot({"\""}), One({"\""})>>, id |-> "STRING"],
     [re |-> <<Opt({"+","-"}), Plus(Digit),
               OptSeq(<<One({"."}), Plus(Digit)>>),
               OptSeq(<<One({"E","e"}), Opt({"+","-"}), Plus(Digit)>>)>>,
                                                            id |-> "NUMBER"],
     [re |-> <<One(Lower \cup Upper), Plus(Lower \cup Upper \cup Digit)>>,
                                                            id |-> "WORD"] >>

(***************************************************************************)
(* lexertl's lookup: the longest match over all rules from a position, the *)
(* first declared rule winning a tie; an unmatched character is skipped as *)
(* a one-character token of id npos.                                       *)
(***************************************************************************)
InClass(e, c) == (c \in e.cs) # e.neg

\* positions reached from the positions P by one character of e's class
StepOne(e, s, P) == {p + 1 : p \in {q \in P : q <= Len(s) /\ InClass(e, s[q])}}

RECURSIVE StepStar(_, _, _)
StepStar(e, s, P) ==
  LET Q == P \cup StepOne(e, s, P)
  IN  IF Q = P THEN P ELSE StepStar(e, s, Q)

\* positions reached from the positions P by the whole pattern re
RECURSIVE MatchEnds(_, _, _)
MatchEnds(re, s, P) ==
  IF P = {} \/ re = <<>> THEN P
  ELSE LET e == Head(re)
           Q == CASE e.k = "one"    -> StepOne(e, s, P)
                  [] e.k = "opt"    -> P \cup StepOne(e, s, P)
                  [] e.k = "star"   -> StepStar(e, s, P)
                  [] e.k = "plus"   -> StepStar(e, s, StepOne(e, s, P))
                  [] e.k = "optseq" -> P \cup MatchEnds(e.sub, s, P)
       IN  MatchEnds(Tail(re), s, Q)

SetMax(S) == CHOOSE x \in S : \A y \in S : y <= x

SetMin(S) == CHOOSE x \in S : \A y \in S : x <= y

\* whether a match of re can begin with the character c
CanStart(re, c) == re[1].k \in {"one", "plus"} => InClass(re[1], c)

\* the length of the longest of the matches from pos that end at E
LongestOf(E, pos) == IF E = {} THEN 0 ELSE SetMax(E) - pos

\* length of the longest match of re in s from position pos, 0 when none
MatchLen(re, s, pos) ==
  IF ~CanStart(re, s[pos]) THEN 0
  ELSE LongestOf(MatchEnds(re, s, {pos}), pos)

\* the end iterator: no state machine, token id 0 (EOF_)
End == [sm |-> FALSE, first |-> 0, second |-> 0, id |-> "EOF_"]

\* the rules of t that match in s from pos, each as <<length, rule number>>
Hits(t, s, pos) ==
  {h \in {<<MatchLen(t[r].re, s, pos), r>> : r \in 1..Len(t)} : h[1] > 0}

\* the token at pos when the last declared of the longest matches wins
Winner_lastrule(t, pos, hits) ==
  IF hits = {}
  THEN [sm |-> TRUE, first |-> pos, second |-> pos + 1, id |-> "NPOS"]
  ELSE LET best == SetMax({h[1] : h \in hits})
           win  == SetMax({h[2] : h \in {g \in hits : g[1] = best}})
       IN  [sm |-> TRUE, first |-> pos, second |-> pos + best,
            id |-> t[win].id]

\* the token at pos given the matching rules: the longest match, the first
\* declared rule among the longest; with no match, one character of id npos
Winner(t, pos, hits) ==
  IF hits = {}
  THEN [sm |-> TRUE, first |-> pos, second |-> pos + 1, id |-> "NPOS"]
  ELSE LET best == SetMax({h[1] : h \in hits})
           win  == SetMin({h[2] : h \in {g \in hits : g[1] = best}})
       IN  [sm |-> TRUE, first |-> pos, second |-> pos + best,
            id |-> t[win].id]

\* the iterator after a lookup in input s from position pos with table t
Lookup(t, s, pos) ==
  IF pos > Len(s) THEN End ELSE Winner(t, pos, Hits(t, s, pos))

(***************************************************************************)
(* The static state machine of build_lexer.  sm is the list of the rules   *)
(* compiled into it, by their number in Rules: empty until the first       *)
(* build.  builds counts the executions of lexertl::generator::build.      *)
(***************************************************************************)
EmptySm == <<>>

AllRules == [r \in 1..Len(Rules) |-> r]

\* the compiled table of a state machine
Table(m) == [r \in 1..Len(m) |-> Rules[m[r]]]

\* build_lexer without the test of sm.empty(): it builds at every call
build_lexer_always(st) == [sm |-> AllRules, builds |-> st.builds + 1]

\* build_lexer on the static state st = [sm, builds]: the state after it
build_lexer(st) ==
  IF st.sm # EmptySm
  THEN st
  ELSE [sm |-> AllRules, builds |-> st.builds + 1]

(***************************************************************************)
(* The lexer object: two iterators and two line counters.                  *)
(***************************************************************************)
NoError == [kind |-> "none", line |-> 0]

Trivia == {"WS", "NEWLINE", "COMMENT"}

\* operator++ of the iterator: look up from the end of the last match
Incr(m, s, iter) == Lookup(Table(m), s, iter.second)

\* one more newline skipped
AddLine(r) == [iter |-> r.iter, endlines |-> r.endlines + 1]

\* skip_whitespace: the iterator after the skip and the newlines skipped
RECURSIVE skip_whitespace(_, _, _)
skip_whitespace(m, s, iter) ==
  IF iter = End THEN [iter |-> iter, endlines |-> 0]
  ELSE IF iter.id = "NEWLINE"
       THEN AddLine(skip_whitespace(m, s, Incr(m, s, iter)))
       ELSE IF iter.id = "WS" \/ iter.id = "COMMENT"
            THEN skip_whitespace(m, s, Incr(m, s, iter))
            ELSE [iter |-> iter, endlines |-> 0]

ended(c) == c.current_ = End

\* an operation's outcome: the lexer after it and the error it threw
Ok(c) == [c |-> c, err |-> NoError]
Throw(c, kind) == [c |-> c, err |-> [kind |-> kind, line |-> c.current_line_num_]]

\* the lookahead becomes current; sk is the new lookahead and the newlines
\* skipped on the way to it
Shift(c, sk) ==
  Ok([current_          |-> c.next_,
      next_             |-> sk.iter,
      current_line_num_ |-> c.next_line_num_,
      next_line_num_    |-> c.next_line_num_ + sk.endlines])

\* consume() that leaves the lookahead on the token right after the old one
consume_noskip(m, s, c) ==
  IF ended(c) THEN Throw(c, "EOF_REACHED")
  ELSE Shift(c, [iter     |-> IF c.next_ # End THEN Incr(m, s, c.next_)
                              ELSE c.next_,
                 endlines |-> 0])

\* consume() that tests the lookahead, not the current token, for the end
consume_lateeof(m, s, c) ==
  IF c.next_ = End THEN Throw(c, "EOF_REACHED")
  ELSE Shift(c, skip_whitespace(m, s, Incr(m, s, c.next_)))

\* consume()
consume(m, s, c) ==
  IF ended(c) THEN Throw(c, "EOF_REACHED")
  ELSE Shift(c, IF c.next_ # End
                THEN skip_whitespace(m, s, Incr(m, s, c.next_))
                ELSE [iter |-> c.next_, endlines |-> 0])

\* expect(t, msg) that never throws
expect_silent(c, t) == Ok(c)

\* expect(t, msg)
expect(c, t) ==
  IF c.current_.id # t THEN Throw(c, "UNEXPECTED_TOKEN") ELSE Ok(c)

\* consume(t, msg)
consume_kind(m, s, c, t) ==
  IF expect(c, t).err # NoError THEN expect(c, t) ELSE consume(m, s, c)

RECURSIVE consume_until(_, _, _, _)

\* the test of consume_until's loop that also stops at the end of input
until_test_stopatend(m, s, r, endpoint) ==
  IF r.err # NoError THEN r
  ELSE IF r.c.current_.id # endpoint /\ r.c.current_ # End
       THEN consume_until(m, s, r.c, endpoint)
       ELSE r

\* the test of consume_until's loop on r, the outcome of its consume()
until_test(m, s, r, endpoint) ==
  IF r.err # NoError THEN r
  ELSE IF r.c.current_.id # endpoint
       THEN consume_until(m, s, r.c, endpoint)
       ELSE r

\* consume_until(endpoint) that tests the current token before it advances
consume_until_testfirst(m, s, c, endpoint) ==
  IF c.current_.id = endpoint THEN Ok(c)
  ELSE until_test(m, s, consume(m, s, c), endpoint)

\* consume_until(endpoint)
consume_until(m, s, c, endpoint) ==
  until_test(m, s, consume(m, s, c), endpoint)

RECURSIVE balanced_loop(_, _, _, _)

\* the switch of the loop: the count after the token id
counted(id, opening_count) ==
  CASE id = "RPAREN" -> opening_count - 1
    [] id = "LPAREN" -> opening_count + 1
    [] OTHER         -> opening_count

\* the loop's body without the LPAREN case: an opening parenthesis is not
\* counted
balanced_body_flat(m, s, r, opening_count) ==
  IF r.err # NoError THEN r
  ELSE IF ended(r.c) THEN Throw(r.c, "EOF_UNBALANCED_PARENS")
  ELSE balanced_loop(m, s, r.c,
                     IF r.c.current_.id = "RPAREN" THEN opening_count - 1
                     ELSE opening_count)

\* the loop's body without the test of ended() after the switch
balanced_body_noeof(m, s, r, opening_count) ==
  IF r.err # NoError THEN r
  ELSE balanced_loop(m, s, r.c, counted(r.c.current_.id, opening_count))

\* the loop's body after its consume(), whose outcome is r
balanced_body(m, s, r, opening_count) ==
  IF r.err # NoError THEN r
  ELSE IF ended(r.c) THEN Throw(r.c, "EOF_UNBALANCED_PARENS")
  ELSE balanced_loop(m, s, r.c, counted(r.c.current_.id, opening_count))

\* the loop of consume_until_balanced_paren, entered with opening_count
balanced_loop(m, s, c, opening_count) ==
  IF opening_count = 0 THEN Ok(c)
  ELSE balanced_body(m, s, consume(m, s, c), opening_count)

\* the consume(Token::RPAREN) that follows the loop, whose outcome is r
balanced_close(m, s, r) ==
  IF r.err # NoError THEN r ELSE consume_kind(m, s, r.c, "RPAREN")

\* consume_until_balanced_paren()
consume_until_balanced_paren(m, s, c) ==
  balanced_close(m, s, balanced_loop(m, s, c, 1))

\* start_parse from the skip on: it is the first iterator, sk the outcome of
\* skip_whitespace(current_)
start_skipped(m, s, c, it, sk) ==
  consume(m, s, [current_          |-> sk.iter,
                 next_             |-> it,
                 current_line_num_ |-> c.current_line_num_ + sk.endlines,
                 next_line_num_    |-> c.next_line_num_ + sk.endlines])

\* start_parse without its skip_whitespace(current_)
start_from_noskip(m, s, c, it) ==
  start_skipped(m, s, c, it, [iter |-> it, endlines |-> 0])

\* start_parse once current_ and next_ are constructed as it
start_from(m, s, c, it) ==
  start_skipped(m, s, c, it, skip_whitespace(m, s, it))

\* start_parse(input), after build_lexer returned the state machine m
start_parse(m, s, c) == start_from(m, s, c, Lookup(Table(m), s, 1))

(***************************************************************************)
(* State.  One lexer object and the input of its parse; the static state   *)
(* machine; the last operation called on the lexer and the error it threw; *)
(* and, for concurrent callers of start_parse, each thread's position.     *)
(***************************************************************************)
VARIABLES
  input,              \* the string given to the last start_parse
  sm,                 \* build_lexer's static state machine
  builds,             \* executions of lexertl::generator::build so far
  current_,           \* NeurolucidaLexer::current_
  next_,              \* NeurolucidaLexer::next_
  current_line_num_,  \* NeurolucidaLexer::current_line_num_
  next_line_num_,     \* NeurolucidaLexer::next_line_num_
  parses,             \* start_parse calls made on the lexer
  started,            \* whether the last start_parse returned normally
  op,                 \* the last operation called on the lexer
  err,                \* the error it threw, NoError when it returned
  pc,                 \* per thread: its position in start_parse
  calls               \* per thread: start_parse calls it has made

\* the exception classes of the Python module and a caller's handlers
VARIABLES
  classes,            \* the registered exception classes, each with its base
  pystep,             \* register_exception statements executed so far
  handlers,           \* the caller's active except clauses, innermost first
  raised,             \* the class of the last exception raised
  caught              \* the except clause that caught it

\* a stream spike report, its source and its client
VARIABLES
  stream,             \* the spike times the source sends, in order
  received,           \* how many of them have arrived
  cache,              \* the receive cache: arrived, not yet made available
  spikes,             \* the data set returned by getSpikes()
  streamEnd,          \* the source has closed the stream
  closed,             \* close() was called
  lastExtracted,      \* the latest time stamp taken from the cache
  waiting,            \* a caller is blocked in waitUntil
  warg,               \* the time stamp it waits for
  wtimed,             \* whether it gave a timeout
  wblocked,           \* whether the last waitUntil call had to block
  sop,                \* the last operation on the report
  sret                \* what it returned

\* calls in progress on the lexer and what the parser's conversion returned
VARIABLES
  loop,               \* the consume_until call in progress: its endpoint,
                      \* the lexer at the call, the passes of its loop
  section             \* what the last TokenToSectionType call returned

pyvars == <<classes, pystep, handlers, raised, caught>>

spikevars == <<stream, received, cache, spikes, streamEnd, closed,
               lastExtracted, waiting, warg, wtimed, wblocked, sop, sret>>

callvars == <<loop, section>>

vars == <<input, sm, builds, current_, next_, current_line_num_,
          next_line_num_, parses, started, op, err, pc, calls,
          pyvars, spikevars, callvars>>

lexvars == <<input, current_, next_, current_line_num_, next_line_num_,
             parses, started, op, err>>

Threads == 1..NThreads

\* the characters inputs are made of
Alphabet == {"\n", " ", "(", ")", ">", "1"}

RECURSIVE SeqsOfLen(_)
SeqsOfLen(n) ==
  IF n = 0 THEN {<<>>}
  ELSE {Append(w, ch) : w \in SeqsOfLen(n - 1), ch \in Alphabet}

Inputs(maxlen) == UNION {SeqsOfLen(n) : n \in 0..maxlen}

\* the inputs given to a lexer object that parses several inputs
ReuseInputs ==
  { <<>>, <<" ">>, <<"(", ")">>, <<"\n", "(">>, <<"1", "\n", ")">>,
    <<"\n", "\n", "1", " ", "(">> }

\* the Token values callers pass to expect, consume and consume_until
Kinds == {"EOF_", "RPAREN", "NUMBER"}

Lexer == [current_          |-> current_,
          next_             |-> next_,
          current_line_num_ |-> current_line_num_,
          next_line_num_    |-> next_line_num_]

\* the lexer object takes the state r.c, the call's outcome is recorded
Becomes(name, r) ==
  /\ current_' = r.c.current_
  /\ next_' = r.c.next_
  /\ current_line_num_' = r.c.current_line_num_
  /\ next_line_num_' = r.c.next_line_num_
  /\ op' = name
  /\ err' = r.err

\* the Python module before its initialisation, a caller without handlers
PyInit ==
  /\ classes = [n \in {} |-> n]
  /\ pystep = 0
  /\ handlers = <<>>
  /\ raised = "none"
  /\ caught = "none"

\* what an operation on the report returns: nothing, a boolean, a time
\* stamp, or UNDEFINED_TIMESTAMP
NoRet == [kind |-> "none", val |-> 0]
Bool(b) == [kind |-> "bool", val |-> IF b THEN 1 ELSE 0]
Time(t) == [kind |-> "time", val |-> t]
UNDEFINED_TIMESTAMP == [kind |-> "undefined", val |-> 0]

\* a stream report just opened on a source that will send the spikes s
SpikeInit(s) ==
  /\ stream = s
  /\ received = 0
  /\ cache = {}
  /\ spikes = {}
  /\ streamEnd = FALSE
  /\ closed = FALSE
  /\ lastExtracted = 0
  /\ waiting = FALSE
  /\ warg = Time(0)
  /\ wtimed = FALSE
  /\ wblocked = FALSE
  /\ sop = "SpikeReport"
  /\ sret = NoRet

\* the lexer after the constructor: default iterators, both lines 1
LexerInit ==
  /\ input = <<>>
  /\ sm = EmptySm
  /\ builds = 0
  /\ current_ = End
  /\ next_ = End
  /\ current_line_num_ = 1
  /\ next_line_num_ = 1
  /\ parses = 0
  /\ started = FALSE
  /\ op = "NeurolucidaLexer"
  /\ err = NoError
  /\ pc = [t \in Threads |-> "idle"]
  /\ calls = [t \in Threads |-> 0]

\* no consume_until call in progress
NoLoop == [endpoint |-> "none",
           from     |-> [current_ |-> End, next_ |-> End,
                         current_line_num_ |-> 0, next_line_num_ |-> 0],
           passes   |-> 0]

\* no call in progress, no section type returned
CallInit ==
  /\ loop = NoLoop
  /\ section = "none"

\* the state after the constructor
Init == LexerInit /\ PyInit /\ SpikeInit(<<>>) /\ CallInit

\* start_parse(s) for an input of ins, on a lexer that has parsed fewer
\* than maxparses inputs
StartParse(ins, maxparses) ==
  /\ parses < maxparses
  /\ \E s \in ins :
       LET st == build_lexer([sm |-> sm, builds |-> builds])
       IN  /\ input' = s
           /\ sm' = st.sm
           /\ builds' = st.builds
           /\ Becomes("start_parse", start_parse(st.sm, s, Lexer))
  /\ parses' = parses + 1
  /\ started' = (err' = NoError)
  /\ UNCHANGED <<pc, calls, pyvars, spikevars, callvars>>

Consume ==
  /\ parses > 0
  /\ Becomes("consume", consume(sm, input, Lexer))
  /\ UNCHANGED <<input, sm, builds, parses, started, pc, calls,
                 pyvars, spikevars, callvars>>

ExpectK(t) ==
  /\ parses > 0
  /\ Becomes("expect", expect(Lexer, t))
  /\ UNCHANGED <<input, sm, builds, parses, started, pc, calls,
                 pyvars, spikevars, callvars>>

Expect == \E t \in Kinds : ExpectK(t)

ConsumeKindK(t) ==
  /\ parses > 0
  /\ Becomes("consume_kind", consume_kind(sm, input, Lexer, t))
  /\ UNCHANGED <<input, sm, builds, parses, started, pc, calls,
                 pyvars, spikevars, callvars>>

ConsumeKind == \E t \in Kinds : ConsumeKindK(t)

ConsumeUntilK(t) ==
  /\ parses > 0
  /\ Becomes("consume_until", consume_until(sm, input, Lexer, t))
  /\ UNCHANGED <<input, sm, builds, parses, started, pc, calls,
                 pyvars, spikevars, callvars>>

ConsumeUntil == \E t \in Kinds : ConsumeUntilK(t)

ConsumeUntilBalancedParen ==
  /\ parses > 0
  /\ Becomes("consume_until_balanced_paren",
             consume_until_balanced_paren(sm, input, Lexer))
  /\ UNCHANGED <<input, sm, builds, parses, started, pc, calls,
                 pyvars, spikevars, callvars>>

\* one lexer object parsing one input
Next ==
  \/ StartParse(Inputs(MaxLen), 1)
  \/ Consume
  \/ Expect
  \/ ConsumeKind
  \/ ConsumeUntil
  \/ ConsumeUntilBalancedParen

Spec == Init /\ [][Next]_vars

\* one lexer object parsing MaxParses inputs one after the other
NextReuse ==
  \/ StartParse(ReuseInputs, MaxParses)
  \/ Consume
  \/ Expect
  \/ ConsumeKind
  \/ ConsumeUntil
  \/ ConsumeUntilBalancedParen

SpecReuse == Init /\ [][NextReuse]_vars

(***************************************************************************)
(* Threads calling start_parse concurrently, each on a lexer object of its *)
(* own: the steps of build_lexer on the shared static state machine, then  *)
(* the lookups of the parse, which read it.                                *)
(***************************************************************************)
Writing(t) == pc[t] \in {"building", "minimising"}

Reading(t) == pc[t] = "lookup"

OtherWrites(t) == \E u \in Threads \ {t} : Writing(u)

\* start_parse is called and enters build_lexer
Call(t) ==
  /\ pc[t] = "idle"
  /\ calls[t] < MaxParses
  /\ pc' = [pc EXCEPT ![t] = "check"]
  /\ calls' = [calls EXCEPT ![t] = @ + 1]
  /\ UNCHANGED <<sm, builds, lexvars, pyvars, spikevars, callvars>>

\* if (!sm.empty()) return sm: a read of sm that races with a writer sees
\* either answer
Check(t) ==
  /\ pc[t] = "check"
  /\ \E empty \in IF OtherWrites(t) THEN BOOLEAN ELSE {sm = EmptySm} :
       pc' = [pc EXCEPT ![t] = IF empty THEN "rules" ELSE "lookup"]
  /\ UNCHANGED <<sm, builds, calls, lexvars, pyvars, spikevars, callvars>>

\* the rules are pushed to the local rules_; generator::build starts to
\* write the state machine
BuildBegin(t) ==
  /\ pc[t] = "rules"
  /\ pc' = [pc EXCEPT ![t] = "building"]
  /\ sm' = EmptySm
  /\ builds' = builds + 1
  /\ UNCHANGED <<calls, lexvars, pyvars, spikevars, callvars>>

\* generator::build returns, sm.minimise() starts
BuildEnd(t) ==
  /\ pc[t] = "building"
  /\ pc' = [pc EXCEPT ![t] = "minimising"]
  /\ sm' = AllRules
  /\ UNCHANGED <<builds, calls, lexvars, pyvars, spikevars, callvars>>

\* sm.minimise() returns, build_lexer returns sm
MinimiseEnd(t) ==
  /\ pc[t] = "minimising"
  /\ pc' = [pc EXCEPT ![t] = "lookup"]
  /\ sm' = AllRules
  /\ UNCHANGED <<builds, calls, lexvars, pyvars, spikevars, callvars>>

\* the parse's lookups read the state machine and start_parse returns; read
\* while another thread writes it, the outcome is undefined
Return(t) ==
  /\ pc[t] = "lookup"
  /\ \E out \in IF OtherWrites(t) THEN {"idle", "undefined"} ELSE {"idle"} :
       pc' = [pc EXCEPT ![t] = out]
  /\ UNCHANGED <<sm, builds, calls, lexvars, pyvars, spikevars, callvars>>

NextMT ==
  \E t \in Threads :
    \/ Call(t)
    \/ Check(t)
    \/ BuildBegin(t)
    \/ BuildEnd(t)
    \/ MinimiseEnd(t)
    \/ Return(t)

SpecMT == Init /\ [][NextMT]_vars

(***************************************************************************)
(* The token stream of the input, for stating what the cursor must show.   *)
(***************************************************************************)
\* every token of s from position pos on, trivia included
RECURSIVE RawFrom(_, _, _)
RawFrom(t, s, pos) ==
  LET k == Lookup(t, s, pos)
  IN  IF k = End THEN <<>> ELSE <<k>> \o RawFrom(t, s, k.second)

Raw == RawFrom(Table(sm), input, 1)

\* where a token starts and where it ends, the end of input for End
PosOf(iter) == IF iter = End THEN Len(input) + 1 ELSE iter.first
AfterOf(iter) == IF iter = End THEN Len(input) + 1 ELSE iter.second

\* the NEWLINE tokens that start in p..q-1
NewlinesIn(p, q) ==
  Cardinality({i \in 1..Len(Raw) :
                 Raw[i].id = "NEWLINE" /\ p <= Raw[i].first /\ Raw[i].first < q})

\* the first non-trivia token that starts at p or later, End when none
FirstTokenFrom(p) ==
  LET c == {i \in 1..Len(Raw) : Raw[i].first >= p /\ Raw[i].id \notin Trivia}
  IN  IF c = {} THEN End ELSE Raw[SetMin(c)]

Advancing == {"start_parse", "consume", "consume_kind", "consume_until",
              "consume_until_balanced_paren"}

(***************************************************************************)
(* C1: after start_parse returns, and after every later successful         *)
(* consume, consume(kind), consume_until or consume_until_balanced_paren,  *)
(* neither current() nor peek() is a whitespace, newline or comment token. *)
(***************************************************************************)
C1_NoTriviaSurfaced ==
  (started /\ op \in Advancing /\ err = NoError)
    => (current_.id \notin Trivia /\ next_.id \notin Trivia)

(***************************************************************************)
(* C2: in every state after start_parse returned, line_num() is 1 plus the *)
(* number of newline tokens before the current token, and the lookahead    *)
(* line counter is 1 plus the number of newlines before the lookahead.     *)
(***************************************************************************)
C2_LinesAccurate ==
  started =>
    /\ current_line_num_ = 1 + NewlinesIn(1, PosOf(current_))
    /\ next_line_num_ = 1 + NewlinesIn(1, PosOf(next_))

(***************************************************************************)
(* C3: consume() called when the cursor is not at end-of-input returns     *)
(* normally; the new current token is the old lookahead, the new line is   *)
(* the old lookahead line, the new lookahead is the first non-trivia token *)
(* after the old lookahead (End when none), and the lookahead line grows   *)
(* by the number of newline tokens skipped.                                *)
(***************************************************************************)
C3_ConsumeShifts ==
  [][ (op' = "consume" /\ current_ # End) =>
        /\ err' = NoError
        /\ current_' = next_
        /\ current_line_num_' = next_line_num_
        /\ next_' = FirstTokenFrom(AfterOf(next_))
        /\ next_line_num_' =
             next_line_num_ + NewlinesIn(AfterOf(next_), PosOf(next_'))
    ]_vars

\* a consume() that skipped a newline to reach its new lookahead
C3_Witness ==
  /\ op = "consume"
  /\ err = NoError
  /\ next_ # End
  /\ next_line_num_ > current_line_num_
  /\ NewlinesIn(AfterOf(current_), PosOf(next_)) > 0

(***************************************************************************)
(* C4: consume() throws the end-of-input error exactly when the current    *)
(* token is end-of-input at the call, and then leaves both iterators and   *)
(* both line counters as they were; called on the last token (lookahead    *)
(* already at the end) it returns normally and ended() becomes true.       *)
(***************************************************************************)
C4_ConsumeEof ==
  [][ op' = "consume" =>
        /\ (err'.kind = "EOF_REACHED") <=> (current_ = End)
        /\ err' # NoError =>
             /\ err'.kind = "EOF_REACHED"
             /\ UNCHANGED <<current_, next_, current_line_num_, next_line_num_>>
        /\ (current_ # End /\ next_ = End) =>
             (err' = NoError /\ current_' = End)
    ]_vars

\* the advance after the one that reached the end of a parsed input failed
C4_Witness ==
  /\ started
  /\ op = "consume"
  /\ err.kind = "EOF_REACHED"
  /\ current_ = End
  /\ \E i \in 1..Len(Raw) : Raw[i].id \notin Trivia

\* the tokens that successive consume() calls make current, in order: the
\* lookahead, the non-trivia tokens after it, and the end of input
Upcoming ==
  IF current_ = End THEN <<>>
  ELSE IF next_ = End THEN <<End>>
  ELSE <<next_>>
       \o SelectSeq(Raw, LAMBDA k : k.first >= next_.second /\ k.id \notin Trivia)
       \o <<End>>

\* the token after the i-th upcoming token, End after the last
Following(U, i) == IF i < Len(U) THEN U[i + 1] ELSE End

CursorUnchanged ==
  UNCHANGED <<current_, next_, current_line_num_, next_line_num_>>

\* the lexer has moved to the i-th upcoming token
MovedTo(U, i) ==
  /\ current_' = U[i]
  /\ next_' = Following(U, i)
  /\ current_line_num_' =
       next_line_num_ + NewlinesIn(AfterOf(next_), PosOf(current_'))
  /\ next_line_num_' =
       next_line_num_ + NewlinesIn(AfterOf(next_), PosOf(next_'))

Mismatch == [kind |-> "UNEXPECTED_TOKEN", line |-> current_line_num_]

(***************************************************************************)
(* C5 as stated, on a lexer whose start_parse returned: expect(kind) never *)
(* advances, throws the token-mismatch error when the current token's kind *)
(* differs and returns silently when it matches; consume(kind) throws the  *)
(* mismatch error with the cursor unchanged on a mismatch, and on a match  *)
(* advances exactly one token.                                             *)
(***************************************************************************)
C5_AsStated ==
  [][ \A t \in Kinds :
        started =>
          /\ ExpectK(t) =>
               /\ CursorUnchanged
               /\ err' = IF current_.id = t THEN NoError ELSE Mismatch
          /\ ConsumeKindK(t) =>
               IF current_.id # t
               THEN err' = Mismatch /\ CursorUnchanged
               ELSE err' = NoError /\ MovedTo(Upcoming, 1)
    ]_vars

(***************************************************************************)
(* C5, amended: as stated, except that a match of the end-of-input token   *)
(* (kind EOF_ with the cursor at the end) is followed by consume()'s       *)
(* end-of-input error, the cursor unchanged, and not by an advance.        *)
(***************************************************************************)
C5_ExpectThenConsume ==
  [][ \A t \in Kinds :
        started =>
          /\ ExpectK(t) =>
               /\ CursorUnchanged
               /\ err' = IF current_.id = t THEN NoError ELSE Mismatch
          /\ ConsumeKindK(t) =>
               IF current_.id # t
               THEN err' = Mismatch /\ CursorUnchanged
               ELSE IF current_ = End
                    THEN err'.kind = "EOF_REACHED" /\ CursorUnchanged
                    ELSE err' = NoError /\ MovedTo(Upcoming, 1)
    ]_vars

\* consume(EOF_) at the end of a parsed input: the kind matched, the advance
\* threw
C5_Witness ==
  /\ started
  /\ op = "consume_kind"
  /\ err.kind = "EOF_REACHED"
  /\ current_ = End

(***************************************************************************)
(* C6: consume_until(kind) advances at least once and stops right after    *)
(* the first advance that makes a token of the given kind current: when a  *)
(* token of that kind is among the tokens still to come after the current  *)
(* one, it returns normally with the first of them as current token, even  *)
(* when the call-time current token has that kind too.                     *)
(***************************************************************************)
C6_ConsumeUntil ==
  [][ \A t \in Kinds :
        ConsumeUntilK(t) =>
          LET U   == Upcoming
              hit == {i \in 1..Len(U) : U[i].id = t}
          IN  hit # {} => (err' = NoError /\ MovedTo(U, SetMin(hit)))
    ]_vars

\* consume_until(RPAREN) called on a ')' went on to the next ')'
C6_Witness ==
  /\ op = "consume_until"
  /\ err = NoError
  /\ current_.id = "RPAREN"
  /\ \E i \in 1..Len(Raw) :
       /\ Raw[i].id = "RPAREN"
       /\ Raw[i].first < current_.first
       /\ \A j \in 1..(i - 1) : Raw[j].id # "RPAREN"
       /\ \A j \in (i + 1)..Len(Raw) :
            Raw[j].first < current_.first => Raw[j].id \in Trivia

(***************************************************************************)
(* The parenthesis that closes the block opened at the current token.      *)
(***************************************************************************)
\* closing minus opening parentheses among the first i upcoming tokens
Closed(U, i) ==
  Cardinality({j \in 1..i : U[j].id = "RPAREN"})
    - Cardinality({j \in 1..i : U[j].id = "LPAREN"})

\* the upcoming tokens at which depth 1 has come down to 0
Closers(U) == {i \in 1..Len(U) : Closed(U, i) = 1}

(***************************************************************************)
(* C7: consume_until_balanced_paren called on an opening '(' whose closing *)
(* ')' exists, only '(' and ')' counting for the depth, returns normally   *)
(* with current() on the token right after that ')' (End when it is the    *)
(* last token).                                                            *)
(***************************************************************************)
C7_BalancedSkip ==
  [][ (op' = "consume_until_balanced_paren" /\ current_.id = "LPAREN") =>
        LET U == Upcoming
        IN  Closers(U) # {} =>
              (err' = NoError /\ MovedTo(U, SetMin(Closers(U)) + 1))
    ]_vars

\* a block holding a spine delimiter was skipped up to the end of input
C7_Witness ==
  /\ op = "consume_until_balanced_paren"
  /\ err = NoError
  /\ current_ = End
  /\ Len(Raw) >= 3
  /\ Raw[1].id = "LPAREN"
  /\ \E i \in 2..(Len(Raw) - 1) : Raw[i].id = "RSPINE"
  /\ Raw[Len(Raw)].id = "RPAREN"

(***************************************************************************)
(* C8: when the input ends before the depth reaches 0,                     *)
(* consume_until_balanced_paren throws the unbalanced-parentheses error;   *)
(* when the ')' that brings the depth to 0 is the last token of the input, *)
(* it returns normally, at the end of input.                               *)
(***************************************************************************)
C8_Unbalanced ==
  [][ (op' = "consume_until_balanced_paren" /\ current_ # End) =>
        LET U == Upcoming
        IN  /\ Closers(U) = {} => err'.kind = "EOF_UNBALANCED_PARENS"
            /\ (Closers(U) # {} /\ SetMin(Closers(U)) = Len(U) - 1) =>
                 (err' = NoError /\ current_' = End)
    ]_vars

\* an unterminated '(' was reported as unbalanced
C8_Witness ==
  /\ op = "consume_until_balanced_paren"
  /\ err.kind = "EOF_UNBALANCED_PARENS"
  /\ \E i \in 1..Len(Raw) : Raw[i].id = "LPAREN"

(***************************************************************************)
(* C9: with threads calling start_parse concurrently, the rule table is    *)
(* built once, and no thread writes it while another thread reads it.      *)
(***************************************************************************)
C9_BuiltOnceNoRace ==
  /\ builds <= 1
  /\ \A t, u \in Threads : (t # u /\ Writing(t)) => ~Reading(u)

(***************************************************************************)
(* C10: in one thread, the first start_parse builds the rule table and     *)
(* every later one finds it non-empty and leaves it as it is: one build,   *)
(* the same table for every parse.                                         *)
(***************************************************************************)
C10_BuiltOnFirstCall ==
  [][ /\ parses' >= 1 => (builds' = 1 /\ sm' = AllRules)
      /\ sm # EmptySm => (sm' = sm /\ builds' = builds)
    ]_vars

\* a second parse on a lexer, the table built once
C10_Witness ==
  /\ parses = 2
  /\ op = "start_parse"
  /\ builds = 1
  /\ sm = AllRules

\* a lexer object as its constructor leaves it
Constructed == [current_          |-> End,
                next_             |-> End,
                current_line_num_ |-> 1,
                next_line_num_    |-> 1]

(***************************************************************************)
(* C11: parsing carries no state from one parse to the next: whenever      *)
(* start_parse has just run, on a new lexer object or on one that has      *)
(* parsed before, the tokens, the line counters and the error are those of *)
(* start_parse of the same input on a newly constructed lexer (lines from  *)
(* 1).                                                                     *)
(***************************************************************************)
C11_NoCarryOver ==
  op = "start_parse" =>
    /\ Lexer = start_parse(sm, input, Constructed).c
    /\ err = start_parse(sm, input, Constructed).err

(***************************************************************************)
(* Inputs for the tokenisation of words: the spellings of the reserved     *)
(* words that the rules of build_lexer admit, alone and followed by        *)
(* further letters, other spellings of the neurite-type words, and the     *)
(* parentheses of a spine.                                                 *)
(***************************************************************************)
\* a run of n digits
DigitRun(n) == [i \in 1..n |-> IF i % 2 = 1 THEN "4" ELSE "2"]

\* the strings one element of a reserved word's pattern stands for, a
\* repetition being taken up to MaxDigits times
Expansions(e) ==
  CASE e.k = "one"  -> {<<ch>> : ch \in e.cs}
    [] e.k = "opt"  -> {<<>>} \cup {<<ch>> : ch \in e.cs}
    [] OTHER        -> {w \in {DigitRun(n) : n \in 0..MaxDigits} :
                          \A i \in 1..Len(w) : w[i] \in e.cs}

\* the strings a reserved word's pattern stands for
RECURSIVE Spellings(_)
Spellings(re) ==
  IF re = <<>> THEN {<<>>}
  ELSE {h \o t : h \in Expansions(Head(re)), t \in Spellings(Tail(re))}

\* the token kinds of the reserved words
ReservedIds == {"COLOR", "FONT", "AXON", "APICAL", "DENDRITE", "CELLBODY",
                "MARKER", "GENERATED", "HIGH", "INCOMPLETE", "LOW", "NORMAL",
                "MIDPOINT", "ORIGIN"}

\* the words of kind id
WordsOfKind(id) ==
  UNION {Spellings(Rules[r].re) :
           r \in {q \in 1..Len(Rules) : Rules[q].id = id}}

ReservedWords == UNION {WordsOfKind(id) : id \in ReservedIds}

\* letters that follow a reserved word in a longer word
Suffixes == {<<"s">>, <<"X", "y">>, <<"A", "r", "r", "o", "w">>}

UpperOf ==
  [ch \in {"a", "b", "c", "d", "e", "i", "l", "n", "o", "p", "r", "t", "x", "y"}
     |-> CASE ch = "a" -> "A" [] ch = "b" -> "B" [] ch = "c" -> "C"
           [] ch = "d" -> "D" [] ch = "e" -> "E" [] ch = "i" -> "I"
           [] ch = "l" -> "L" [] ch = "n" -> "N" [] ch = "o" -> "O"
           [] ch = "p" -> "P" [] ch = "r" -> "R" [] ch = "t" -> "T"
           [] ch = "x" -> "X" [] ch = "y" -> "Y"]

\* every upper/lower-case spelling of the lower-case word w
RECURSIVE CaseSpellings(_)
CaseSpellings(w) ==
  IF w = <<>> THEN {<<>>}
  ELSE {<<h>> \o t : h \in {Head(w), UpperOf[Head(w)]},
                     t \in CaseSpellings(Tail(w))}

\* all of w in upper case
AllUpper(w) == [i \in 1..Len(w) |-> UpperOf[w[i]]]

\* the neurite-type words in lower case, with their token kinds
Neurites ==
  { [w |-> <<"a", "x", "o", "n">>,                     id |-> "AXON"],
    [w |-> <<"a", "p", "i", "c", "a", "l">>,           id |-> "APICAL"],
    [w |-> <<"d", "e", "n", "d", "r", "i", "t", "e">>, id |-> "DENDRITE"],
    [w |-> <<"c", "e", "l", "l", "b", "o", "d", "y">>, id |-> "CELLBODY"] }

\* spellings of the neurite-type words: all of axon and apical, and for
\* each word the two the rule names and the one in capitals
CaseInputs ==
  CaseSpellings(<<"a", "x", "o", "n">>)
    \cup CaseSpellings(<<"a", "p", "i", "c", "a", "l">>)
    \cup UNION {{n.w, <<UpperOf[n.w[1]]>> \o Tail(n.w), AllUpper(n.w)} :
                  n \in Neurites}

\* what stands between "Cell" and "Body"
Gaps == {<<>>, <<" ">>, <<" ", " ">>, <<"\t">>, <<"\n">>, <<" ", "\t">>,
         <<" ", " ", " ">>, <<"\n", " ">>}

\* cell and body with one of gaps between them
CellBodyWith(gaps) ==
  {<<c1, "e", "l", "l">> \o g \o <<b1, "o", "d", "y">> :
     c1 \in {"C", "c"}, b1 \in {"B", "b"}, g \in gaps}

CellBodyInputs == CellBodyWith(Gaps)

SpineInputs == {<<")", ">">>, <<"(", ")", ">">>, <<")", ")", ">">>,
                <<"<", "(", "4", ")", ">">>, <<")", " ", ">">>}

\* words that are not reserved, of one character and more, alone and
\* between other tokens
WordInputs == {<<"a">>, <<"Z">>, <<"a", "1">>, <<"a", "b">>, <<"x", "9", "z">>,
               <<"(", "a", ")">>, <<"a", " ", "b", "c">>}

TokInputs ==
  ReservedWords
    \cup {w \o x : w \in ReservedWords, x \in Suffixes}
    \cup CaseInputs \cup CellBodyInputs \cup SpineInputs \cup WordInputs

\* one lexer object parsing one input made of words
NextTok ==
  \/ StartParse(TokInputs, 1)
  \/ Consume
  \/ Expect
  \/ ConsumeKind
  \/ ConsumeUntil
  \/ ConsumeUntilBalancedParen

SpecTok == Init /\ [][NextTok]_vars

\* the token of kind id that is the whole input
Whole(id) == [sm |-> TRUE, first |-> 1, second |-> Len(input) + 1, id |-> id]

\* the input is a run of letters and digits
Alphanumeric == \A i \in 1..Len(input) : input[i] \in Lower \cup Upper \cup Digit

(***************************************************************************)
(* C12: longest match, the first declared rule on a tie.  After            *)
(* start_parse of an input that is exactly a reserved word, the current    *)
(* token is the whole input with the word's reserved kind; of an input     *)
(* that is a reserved word followed by further letters and is not itself   *)
(* reserved, the current token is the whole input as one WORD; in both     *)
(* cases nothing follows.  A token shown by the cursor that starts at the  *)
(* two characters ')>' is one RSPINE token of two characters.              *)
(***************************************************************************)
C12_LongestMatch ==
  /\ (op = "start_parse" /\ input \in ReservedWords) =>
       /\ err = NoError
       /\ \A id \in ReservedIds :
            input \in WordsOfKind(id) => current_ = Whole(id)
       /\ next_ = End
  /\ (/\ op = "start_parse"
      /\ input \notin ReservedWords
      /\ Alphanumeric
      /\ \E w \in ReservedWords, x \in Suffixes : input = w \o x) =>
       /\ err = NoError
       /\ current_ = Whole("WORD")
       /\ next_ = End
  /\ \A k \in {current_, next_} :
       (/\ k # End
        /\ k.first < Len(input)
        /\ input[k.first] = ")"
        /\ input[k.first + 1] = ">") =>
         (k.id = "RSPINE" /\ k.second = k.first + 2)

\* a marker name with digits followed by letters was read as one WORD
C12_Witness ==
  /\ op = "start_parse"
  /\ err = NoError
  /\ \E w \in WordsOfKind("MARKER") :
       /\ Len(w) < Len(input)
       /\ w = SubSeq(input, 1, Len(w))
       /\ w[Len(w)] \in Digit
  /\ current_ = Whole("WORD")

(***************************************************************************)
(* C13: the neurite-type words are recognised whatever the case of their   *)
(* letters: after start_parse of an input that is an upper/lower-case      *)
(* spelling of axon, apical, dendrite or cellbody, the current token is    *)
(* the whole input, of kind AXON, APICAL, DENDRITE or CELLBODY.            *)
(***************************************************************************)
C13_CaseInsensitive ==
  \A n \in Neurites :
    (op = "start_parse" /\ input \in CaseSpellings(n.w)) =>
      (err = NoError /\ current_ = Whole(n.id))

\* the token stream has the shape word, trivia, word
TwoWords ==
  /\ Len(Raw) >= 3
  /\ Raw[1].id = "WORD"
  /\ Raw[Len(Raw)].id = "WORD"
  /\ \A i \in 2..(Len(Raw) - 1) : Raw[i].id \in Trivia

(***************************************************************************)
(* C14: the cell-body word admits one optional space and nothing else.     *)
(* After start_parse of cell and body ([Cc]ell, [Bb]ody) joined by nothing *)
(* or by one space, the current token is the whole input as one CELLBODY;  *)
(* joined by two or more spaces, a tab or a newline, no token of the input *)
(* is a CELLBODY: the tokens are a WORD, trivia and a WORD, and the cursor *)
(* shows the two words.                                                    *)
(***************************************************************************)
C14_OneOptionalSpace ==
  (op = "start_parse" /\ input \in CellBodyInputs) =>
    /\ err = NoError
    /\ IF input \in CellBodyWith({<<>>, <<" ">>})
       THEN current_ = Whole("CELLBODY") /\ next_ = End
       ELSE /\ \A i \in 1..Len(Raw) : Raw[i].id # "CELLBODY"
            /\ TwoWords
            /\ current_ = Raw[1]
            /\ next_ = Raw[Len(Raw)]

\* cell and body two spaces apart were read as two words
C14_Witness ==
  /\ op = "start_parse"
  /\ input = <<"C", "e", "l", "l", " ", " ", "B", "o", "d", "y">>
  /\ current_.id = "WORD"
  /\ next_.id = "WORD"
  /\ next_.first = 7

(***************************************************************************)
(* The conversion of a token to a section type, applied by the parser to   *)
(* the current token.                                                      *)
(***************************************************************************)
\* TokenToSectionType(t) with a case for the cell body
TokenToSectionType_soma(t) ==
  IF t = "AXON"
  THEN [type |-> "SECTION_AXON", err |-> NoError]
  ELSE IF t = "APICAL"
       THEN [type |-> "SECTION_APICAL_DENDRITE", err |-> NoError]
       ELSE IF t = "DENDRITE"
            THEN [type |-> "SECTION_DENDRITE", err |-> NoError]
            ELSE IF t = "CELLBODY"
                 THEN [type |-> "SECTION_SOMA", err |-> NoError]
                 ELSE [type |-> "none",
                       err  |-> [kind |-> "COULD_NOT_CONVERT", line |-> 0]]

\* TokenToSectionType(t): the section type, or the RawDataError it throws,
\* whose message is a fixed text without a line number (line 0)
TokenToSectionType(t) ==
  IF t = "AXON"
  THEN [type |-> "SECTION_AXON", err |-> NoError]
  ELSE IF t = "APICAL"
       THEN [type |-> "SECTION_APICAL_DENDRITE", err |-> NoError]
       ELSE IF t = "DENDRITE"
            THEN [type |-> "SECTION_DENDRITE", err |-> NoError]
            ELSE [type |-> "none",
                  err  |-> [kind |-> "COULD_NOT_CONVERT", line |-> 0]]

\* TokenToSectionType(Token(current()->id))
ToSectionType ==
  /\ parses > 0
  /\ op' = "TokenToSectionType"
  /\ err' = TokenToSectionType(current_.id).err
  /\ section' = TokenToSectionType(current_.id).type
  /\ UNCHANGED <<input, sm, builds, current_, next_, current_line_num_,
                 next_line_num_, parses, started, pc, calls, pyvars,
                 spikevars, loop>>

\* one lexer object parsing one input, and the parser's conversion of the
\* current token
NextDiag ==
  \/ StartParse(TokInputs \cup ReuseInputs, 1)
  \/ Consume
  \/ Expect
  \/ ConsumeKind
  \/ ConsumeUntil
  \/ ConsumeUntilBalancedParen
  \/ ToSectionType

SpecDiag == Init /\ [][NextDiag]_vars

(***************************************************************************)
(* C15: every diagnostic of the tokenizer and cursor layer carries the     *)
(* line number of the current token: whenever an operation has thrown, the *)
(* line in its error is line_num().                                        *)
(***************************************************************************)
C15_ErrorsCarryLine ==
  err # NoError => err.line = current_line_num_

(***************************************************************************)
(* The exception classes of the Python module: the register_exception      *)
(* statements of the module's initialisation, and a Python caller that     *)
(* calls the library inside try statements with except clauses for the     *)
(* registered classes.                                                     *)
(***************************************************************************)
\* the statements with MultipleTrees registered without raw.ptr()
Registrations_nobase ==
  << [name |-> "MorphioError",        base |-> "Exception"],
     [name |-> "RawDataError",        base |-> "MorphioError"],
     [name |-> "UnknownFileType",     base |-> "MorphioError"],
     [name |-> "SomaError",           base |-> "MorphioError"],
     [name |-> "IDSequenceError",     base |-> "RawDataError"],
     [name |-> "MultipleTrees",       base |-> "Exception"],
     [name |-> "MissingParentError",  base |-> "RawDataError"],
     [name |-> "SectionBuilderError", base |-> "RawDataError"] >>

\* the register_exception statements in order: the class's name and the
\* class passed as its base (Exception when none is passed)
Registrations ==
  << [name |-> "MorphioError",        base |-> "Exception"],
     [name |-> "RawDataError",        base |-> "MorphioError"],
     [name |-> "UnknownFileType",     base |-> "MorphioError"],
     [name |-> "SomaError",           base |-> "MorphioError"],
     [name |-> "IDSequenceError",     base |-> "RawDataError"],
     [name |-> "MultipleTrees",       base |-> "RawDataError"],
     [name |-> "MissingParentError",  base |-> "RawDataError"],
     [name |-> "SectionBuilderError", base |-> "RawDataError"] >>

\* py::register_exception<T>(m, name, base): a new class name derived from
\* base
register_exception(cl, name, base) == (name :> base) @@ cl

\* whether class e is class h or derives from it
RECURSIVE IsSubclass(_, _, _)
IsSubclass(cl, e, h) ==
  \/ e = h
  \/ (e \in DOMAIN cl /\ IsSubclass(cl, cl[e], h))

\* the first except clause of hs, innermost first, that matches e; 0 if none
Catcher(cl, hs, e) ==
  IF \E i \in 1..Len(hs) : IsSubclass(cl, e, hs[i])
  THEN SetMin({i \in 1..Len(hs) : IsSubclass(cl, e, hs[i])})
  ELSE 0

Imported == pystep = Len(Registrations)

\* the next register_exception statement of the module's initialisation
Register ==
  /\ pystep < Len(Registrations)
  /\ classes' = register_exception(classes, Registrations[pystep + 1].name,
                                   Registrations[pystep + 1].base)
  /\ pystep' = pystep + 1
  /\ UNCHANGED <<handlers, raised, caught, lexvars, sm, builds, pc, calls,
                 spikevars, callvars>>

\* the caller enters a try statement with the clause: except h
TryK(h) ==
  /\ Imported
  /\ Len(handlers) < MaxHandlers
  /\ handlers' = <<h>> \o handlers
  /\ raised' = "none"
  /\ caught' = "none"
  /\ UNCHANGED <<classes, pystep, lexvars, sm, builds, pc, calls, spikevars,
                 callvars>>

Try == \E h \in DOMAIN classes : TryK(h)

\* the try statement's body ends normally
Leave ==
  /\ handlers # <<>>
  /\ handlers' = Tail(handlers)
  /\ raised' = "none"
  /\ caught' = "none"
  /\ UNCHANGED <<classes, pystep, lexvars, sm, builds, pc, calls, spikevars,
                 callvars>>

\* a library call raises e: the innermost matching clause catches it and
\* the try statements up to that one are left; with none it propagates out
RaiseK(e) ==
  /\ Imported
  /\ raised' = e
  /\ caught' = IF Catcher(classes, handlers, e) = 0 THEN "uncaught"
               ELSE handlers[Catcher(classes, handlers, e)]
  /\ handlers' = IF Catcher(classes, handlers, e) = 0 THEN <<>>
                 ELSE SubSeq(handlers, Catcher(classes, handlers, e) + 1,
                             Len(handlers))
  /\ UNCHANGED <<classes, pystep, lexvars, sm, builds, pc, calls, spikevars,
                 callvars>>

Raise == \E e \in DOMAIN classes : RaiseK(e)

NextPy ==
  \/ Register
  \/ Try
  \/ Leave
  \/ Raise

SpecPy == Init /\ [][NextPy]_vars

\* the hierarchy as documented: each error kind with its parent
Documented ==
  [n \in {"MorphioError", "RawDataError", "SomaError", "UnknownFileType",
          "IDSequenceError", "MultipleTrees", "MissingParentError",
          "SectionBuilderError"} |->
     CASE n = "MorphioError" -> "Exception"
       [] n \in {"RawDataError", "SomaError", "UnknownFileType"}
            -> "MorphioError"
       [] OTHER -> "RawDataError"]

Structural == {"IDSequenceError", "MultipleTrees", "MissingParentError",
               "SectionBuilderError"}

(***************************************************************************)
(* C16: once the module is initialised, the exposed error classes form the *)
(* documented hierarchy: the generic error at the root, the raw-data, soma *)
(* and unknown-format errors its children, the four structural errors      *)
(* children of the raw-data error.  So when an error is raised, an         *)
(* innermost handler for the raw-data error catches it exactly when it is  *)
(* the raw-data error or one of the four structural kinds, a soma or       *)
(* unknown-format error is never caught by a raw-data handler, and with a  *)
(* handler for the generic error in force no error escapes.                *)
(***************************************************************************)
C16_Hierarchy ==
  [][ /\ pystep' = Len(Registrations) => classes' = Documented
      /\ \A e \in DOMAIN classes :
           RaiseK(e) =>
             /\ (handlers # <<>> /\ handlers[1] = "RawDataError") =>
                  (caught' = "RawDataError"
                     <=> e \in Structural \cup {"RawDataError"})
             /\ e \in {"SomaError", "UnknownFileType"} =>
                  caught' # "RawDataError"
             /\ (\E i \in 1..Len(handlers) : handlers[i] = "MorphioError") =>
                  caught' # "uncaught"
    ]_vars

\* a soma error passed a raw-data handler and was caught by the generic one
C16_Witness ==
  /\ Imported
  /\ raised = "SomaError"
  /\ caught = "MorphioError"
  /\ handlers = <<>>

(***************************************************************************)
(* A SpikeReport in STREAM mode opened for reading, as its declaration     *)
(* documents it: the source sends spikes forward in time into the receive  *)
(* cache, waitUntil makes cached spikes available in the data set of       *)
(* getSpikes(), and close() disconnects from the source.  Spikes are named *)
(* by their position in the stream.  Where the documentation leaves a      *)
(* behaviour open (which cached spikes a waitUntil call makes available),  *)
(* every behaviour it allows is a step of the model.                       *)
(***************************************************************************)
\* the non-decreasing sequences of n time stamps
SortedSeqs(n) ==
  {w \in [1..n -> 1..MaxTime] : \A i \in 1..(n - 1) : w[i] <= w[i + 1]}

\* the streams a source sends: the stream always moves forward in time
Streams == UNION {SortedSeqs(n) : n \in 0..MaxSpikes}

\* the time stamps a caller passes to waitUntil
Stamps == {Time(t) : t \in 0..MaxTime} \cup {UNDEFINED_TIMESTAMP}

\* spike i has a time stamp larger than ts; none is larger than
\* UNDEFINED_TIMESTAMP
Past(i, ts) == ts.kind = "time" /\ stream[i] > ts.val

\* a spike with a time stamp larger than ts is among the first n of the
\* stream
Arrived(n, ts) == \E i \in 1..n : Past(i, ts)

\* the sets of spikes of the cache c that a waitUntil(ts) may make
\* available: those up to ts, or up to some later time
ExtractChoices(c, ts) ==
  IF ts.kind = "time"
  THEN {{i \in c : stream[i] <= b} : b \in ts.val..MaxTime}
  ELSE {c}

\* getStartTime(): the time of the first spike, UNDEFINED_TIMESTAMP if none
getStartTime ==
  IF spikes = {} THEN UNDEFINED_TIMESTAMP
  ELSE Time(SetMin({stream[i] : i \in spikes}))

\* getEndTime(): the time of the last spike, UNDEFINED_TIMESTAMP if none
getEndTime ==
  IF spikes = {} THEN UNDEFINED_TIMESTAMP
  ELSE Time(SetMax({stream[i] : i \in spikes}))

\* getNextSpikeTime(): the values the documented cases allow
getNextSpikeTime ==
  IF cache # {} THEN {Time(SetMin({stream[i] : i \in cache}))}
  ELSE IF received = 0
       THEN IF streamEnd THEN {Time(0), UNDEFINED_TIMESTAMP} ELSE {Time(0)}
       ELSE IF streamEnd THEN {UNDEFINED_TIMESTAMP}
            ELSE {Time(lastExtracted)}

\* getLatestSpikeTime(): the latest time stamp received
getLatestSpikeTime ==
  IF received = 0 THEN UNDEFINED_TIMESTAMP ELSE Time(stream[received])

\* a waitUntil call returns result, having made the spikes M of the cache
\* c available
WaitReturns(c, result, M) ==
  /\ waiting' = FALSE
  /\ cache' = c \ M
  /\ spikes' = spikes \cup M
  /\ lastExtracted' = IF M = {} THEN lastExtracted
                      ELSE SetMax({stream[i] : i \in M})
  /\ sop' = "waitUntil"
  /\ sret' = Bool(result)

\* the source sends its next spike, which goes straight to the data set
Arrive_direct ==
  /\ ~closed
  /\ ~streamEnd
  /\ received < Len(stream)
  /\ received' = received + 1
  /\ spikes' = spikes \cup {received + 1}
  /\ UNCHANGED <<cache, lastExtracted, waiting, sop, sret>>
  /\ UNCHANGED <<stream, streamEnd, closed, warg, wtimed, wblocked>>
  /\ UNCHANGED <<lexvars, sm, builds, pc, calls, pyvars, callvars>>

\* the source sends its next spike: it enters the cache, and a caller
\* waiting for a time stamp it is past returns true at that moment
Arrive ==
  /\ ~closed
  /\ ~streamEnd
  /\ received < Len(stream)
  /\ received' = received + 1
  /\ IF waiting /\ Past(received + 1, warg)
     THEN \E M \in ExtractChoices(cache \cup {received + 1}, warg) :
            WaitReturns(cache \cup {received + 1}, TRUE, M)
     ELSE /\ cache' = cache \cup {received + 1}
          /\ UNCHANGED <<spikes, lastExtracted, waiting, sop, sret>>
  /\ UNCHANGED <<stream, streamEnd, closed, warg, wtimed, wblocked>>
  /\ UNCHANGED <<lexvars, sm, builds, pc, calls, pyvars, callvars>>

\* the source closes the stream after its last spike; a waiting caller
\* returns false
EndOfStream ==
  /\ ~closed
  /\ ~streamEnd
  /\ received = Len(stream)
  /\ streamEnd' = TRUE
  /\ IF waiting
     THEN \E M \in ExtractChoices(cache, warg) \cup {{}} :
            WaitReturns(cache, FALSE, M)
     ELSE UNCHANGED <<cache, spikes, lastExtracted, waiting, sop, sret>>
  /\ UNCHANGED <<stream, received, closed, warg, wtimed, wblocked>>
  /\ UNCHANGED <<lexvars, sm, builds, pc, calls, pyvars, callvars>>

\* the timeout of a waiting caller goes off: it returns false
Timeout ==
  /\ waiting
  /\ wtimed
  /\ \E M \in ExtractChoices(cache, warg) \cup {{}} :
       WaitReturns(cache, FALSE, M)
  /\ UNCHANGED <<stream, received, streamEnd, closed, warg, wtimed, wblocked>>
  /\ UNCHANGED <<lexvars, sm, builds, pc, calls, pyvars, callvars>>

\* waitUntil(ts, timeout) that looks for a later spike in the cache only
WaitUntilK_cacheonly(ts, timed) ==
  /\ ~closed
  /\ ~waiting
  /\ warg' = ts
  /\ wtimed' = timed
  /\ IF \E i \in cache : Past(i, ts)
     THEN /\ wblocked' = FALSE
          /\ \E M \in ExtractChoices(cache, ts) : WaitReturns(cache, TRUE, M)
     ELSE IF streamEnd
          THEN /\ wblocked' = FALSE
               /\ \E M \in ExtractChoices(cache, ts) \cup {{}} :
                    WaitReturns(cache, FALSE, M)
          ELSE /\ wblocked' = TRUE
               /\ waiting' = TRUE
               /\ sop' = "waitUntil"
               /\ sret' = NoRet
               /\ UNCHANGED <<cache, spikes, lastExtracted>>
  /\ UNCHANGED <<stream, received, streamEnd, closed>>
  /\ UNCHANGED <<lexvars, sm, builds, pc, calls, pyvars, callvars>>

\* waitUntil(ts, timeout) is called: it returns true at once when a spike
\* later than ts has been received, false at once when the stream has
\* ended, and blocks otherwise
WaitUntilK(ts, timed) ==
  /\ ~closed
  /\ ~waiting
  /\ warg' = ts
  /\ wtimed' = timed
  /\ IF Arrived(received, ts)
     THEN /\ wblocked' = FALSE
          /\ \E M \in ExtractChoices(cache, ts) : WaitReturns(cache, TRUE, M)
     ELSE IF streamEnd
          THEN /\ wblocked' = FALSE
               /\ \E M \in ExtractChoices(cache, ts) \cup {{}} :
                    WaitReturns(cache, FALSE, M)
          ELSE /\ wblocked' = TRUE
               /\ waiting' = TRUE
               /\ sop' = "waitUntil"
               /\ sret' = NoRet
               /\ UNCHANGED <<cache, spikes, lastExtracted>>
  /\ UNCHANGED <<stream, received, streamEnd, closed>>
  /\ UNCHANGED <<lexvars, sm, builds, pc, calls, pyvars, callvars>>

WaitUntil == \E ts \in Stamps, timed \in BOOLEAN : WaitUntilK(ts, timed)

\* close() that leaves a waiting caller blocked
Close_nowake ==
  /\ ~closed
  /\ closed' = TRUE
  /\ sop' = "close"
  /\ sret' = NoRet
  /\ UNCHANGED <<cache, spikes, lastExtracted, waiting>>
  /\ UNCHANGED <<stream, received, streamEnd, warg, wtimed, wblocked>>
  /\ UNCHANGED <<lexvars, sm, builds, pc, calls, pyvars, callvars>>

\* close(): the report disconnects from the source; a caller waiting in
\* waitUntil is unblocked and returns false
Close ==
  /\ ~closed
  /\ closed' = TRUE
  /\ IF waiting
     THEN \E M \in ExtractChoices(cache, warg) \cup {{}} :
            WaitReturns(cache, FALSE, M)
     ELSE /\ sop' = "close"
          /\ sret' = NoRet
          /\ UNCHANGED <<cache, spikes, lastExtracted, waiting>>
  /\ UNCHANGED <<stream, received, streamEnd, warg, wtimed, wblocked>>
  /\ UNCHANGED <<lexvars, sm, builds, pc, calls, pyvars, callvars>>

\* a call that reads the report and returns r
Reads(name, r) ==
  /\ ~closed
  /\ ~waiting
  /\ sop' = name
  /\ sret' = r
  /\ UNCHANGED <<stream, received, cache, spikes, streamEnd, closed,
                 lastExtracted, waiting, warg, wtimed, wblocked>>
  /\ UNCHANGED <<lexvars, sm, builds, pc, calls, pyvars, callvars>>

GetStartTime == Reads("getStartTime", getStartTime)

GetEndTime == Reads("getEndTime", getEndTime)

GetNextSpikeTime == \E r \in getNextSpikeTime : Reads("getNextSpikeTime", r)

GetLatestSpikeTime == Reads("getLatestSpikeTime", getLatestSpikeTime)

\* clear(startTime, endTime): the spikes of the interval leave the data
\* set; nothing happens when endTime is smaller than startTime
ClearK(startTime, endTime) ==
  /\ ~closed
  /\ ~waiting
  /\ spikes' = {i \in spikes :
                  ~(startTime <= stream[i] /\ stream[i] <= endTime)}
  /\ sop' = "clear"
  /\ sret' = NoRet
  /\ UNCHANGED <<stream, received, cache, streamEnd, closed, lastExtracted,
                 waiting, warg, wtimed, wblocked>>
  /\ UNCHANGED <<lexvars, sm, builds, pc, calls, pyvars, callvars>>

Clear == \E a \in 0..MaxTime, b \in 0..MaxTime : ClearK(a, b)

\* a STREAM report, its source and one client thread
NextSpike ==
  \/ Arrive
  \/ EndOfStream
  \/ Timeout
  \/ WaitUntil
  \/ Close
  \/ GetStartTime
  \/ GetEndTime
  \/ GetNextSpikeTime
  \/ GetLatestSpikeTime
  \/ Clear

\* a report just opened, the source about to send any stream
InitSpike ==
  LexerInit /\ PyInit /\ CallInit /\ \E s \in Streams : SpikeInit(s)

SpecSpike == InitSpike /\ [][NextSpike]_vars

\* a blocked waitUntil call returns in this step
Unblocked == waiting /\ ~waiting'

(***************************************************************************)
(* C18: close() unblocks the caller waiting in waitUntil, whose call then  *)
(* returns false.  A waitUntil call, returning at once or after blocking,  *)
(* returns true only when a spike with a time stamp larger than its        *)
(* argument has arrived, and returns false only when no such spike has     *)
(* arrived and its timeout went off, the stream has ended or the report    *)
(* was closed.                                                             *)
(***************************************************************************)
C18_CloseUnblocks ==
  [][ /\ (Close /\ waiting) => (~waiting' /\ sret' = Bool(FALSE))
      /\ closed' => ~waiting'
      /\ Unblocked =>
           /\ sret' \in {Bool(TRUE), Bool(FALSE)}
           /\ sret' = Bool(TRUE) => Arrived(received', warg)
           /\ sret' = Bool(FALSE) =>
                /\ ~Arrived(received', warg)
                /\ (wtimed \/ streamEnd' \/ closed')
      /\ \A ts \in Stamps, timed \in BOOLEAN :
           (WaitUntilK(ts, timed) /\ ~waiting') =>
             /\ sret' = Bool(Arrived(received, ts))
             /\ sret' = Bool(FALSE) => streamEnd
    ]_vars

\* close() ended a wait on a stream whose source had more to send
C18_Witness ==
  /\ closed
  /\ ~streamEnd
  /\ received < Len(stream)
  /\ wblocked
  /\ ~wtimed
  /\ ~waiting
  /\ sop = "waitUntil"
  /\ sret = Bool(FALSE)

\* waitUntil returns in this step, at once or after blocking
WaitReturned ==
  \/ Unblocked
  \/ \E ts \in Stamps, timed \in BOOLEAN : WaitUntilK(ts, timed) /\ ~waiting'

(***************************************************************************)
(* C19: only waitUntil adds spikes to the data set of getSpikes(): a step  *)
(* that adds a spike to it is the return of a waitUntil call, and the      *)
(* arrival of a spike that wakes no caller, getNextSpikeTime,              *)
(* getLatestSpikeTime, getStartTime and getEndTime leave it as it is.      *)
(***************************************************************************)
C19_OnlyWaitUntilAdds ==
  [][ /\ (spikes' \ spikes # {}) => WaitReturned
      /\ (Arrive /\ ~Unblocked) =>
           (spikes' = spikes /\ cache' = cache \cup {received + 1})
      /\ (GetNextSpikeTime \/ GetLatestSpikeTime \/ GetStartTime \/ GetEndTime)
           => spikes' = spikes
    ]_vars

\* spikes wait in the cache, read by getNextSpikeTime, none available yet
C19_Witness ==
  /\ sop = "getNextSpikeTime"
  /\ sret.kind = "time"
  /\ sret.val > 0
  /\ Cardinality(cache) >= 2
  /\ spikes = {}

(***************************************************************************)
(* C20: waitUntil(t) called with a time stamp t smaller than the time      *)
(* stamp getLatestSpikeTime() returns does not block: it returns true at   *)
(* once.                                                                   *)
(***************************************************************************)
C20_NoBlockBelowLatest ==
  [][ \A ts \in Stamps, timed \in BOOLEAN :
        (/\ WaitUntilK(ts, timed)
         /\ ts.kind = "time"
         /\ getLatestSpikeTime.kind = "time"
         /\ ts.val < getLatestSpikeTime.val) =>
          (~waiting' /\ ~wblocked' /\ sret' = Bool(TRUE))
    ]_vars

\* a call for a time below the latest spike, all spikes already taken from
\* the cache, returned true without blocking
C20_Witness ==
  /\ sop = "waitUntil"
  /\ sret = Bool(TRUE)
  /\ ~wblocked
  /\ received > 0
  /\ warg.kind = "time"
  /\ warg.val < stream[received]
  /\ cache = {}
  /\ \A i \in spikes : ~Past(i, warg)

(***************************************************************************)
(* Inputs made of trivia (blanks, newlines, comments) and a few tokens,    *)
(* and consume_until run one evaluation of its loop condition at a time.   *)
(***************************************************************************)
\* the characters of these inputs
ScanAlphabet == {"\n", " ", ";", ")", "1"}

RECURSIVE SeqsOver(_, _)
SeqsOver(A, n) ==
  IF n = 0 THEN {<<>>}
  ELSE {Append(w, ch) : w \in SeqsOver(A, n - 1), ch \in A}

ScanInputs == UNION {SeqsOver(ScanAlphabet, n) : n \in 0..MaxScan}

\* whether the loop of consume_until goes on after its consume() gave r
until_again(r, endpoint) == r.err = NoError /\ r.c.current_.id # endpoint

\* consume_until(t) is called and reaches its loop
UntilCallK(t) ==
  /\ parses > 0
  /\ loop.endpoint = "none"
  /\ loop' = [endpoint |-> t, from |-> Lexer, passes |-> 0]
  /\ op' = "consume_until_called"
  /\ err' = NoError
  /\ UNCHANGED <<input, sm, builds, current_, next_, current_line_num_,
                 next_line_num_, parses, started, pc, calls, pyvars,
                 spikevars, section>>

UntilCall == \E t \in Kinds : UntilCallK(t)

\* the loop's condition evaluated once, r the outcome of its consume(): the
\* loop goes on, or the call returns or throws
UntilStepTo(r) ==
  /\ Becomes(IF until_again(r, loop.endpoint) THEN "consume_until_loop"
             ELSE "consume_until", r)
  /\ loop' = IF until_again(r, loop.endpoint)
             THEN [loop EXCEPT !.passes = @ + 1]
             ELSE NoLoop

\* while (consume()->id != +endpoint) {}
UntilStep ==
  /\ loop.endpoint # "none"
  /\ UntilStepTo(consume(sm, input, Lexer))
  /\ UNCHANGED <<input, sm, builds, parses, started, pc, calls, pyvars,
                 spikevars, section>>

\* one lexer object parsing one input; no other operation is called on it
\* while a consume_until call runs
NextScan ==
  \/ loop.endpoint = "none" /\ StartParse(ScanInputs, 1)
  \/ loop.endpoint = "none" /\ Consume
  \/ loop.endpoint = "none" /\ Expect
  \/ loop.endpoint = "none" /\ ConsumeKind
  \/ loop.endpoint = "none" /\ ConsumeUntil
  \/ loop.endpoint = "none" /\ ConsumeUntilBalancedParen
  \/ UntilCall
  \/ UntilStep

\* a pass of the loop as the record of the call shows it: one more pass
\* counted, or the call over.  The steps of NextScan that change loop while
\* a call is in progress are the steps of UntilStep, and UntilStep is
\* enabled throughout the call.
Pass ==
  /\ loop.endpoint # "none"
  /\ loop' \in {[loop EXCEPT !.passes = @ + 1], NoLoop}

\* the thread that called consume_until keeps executing its loop
SpecScan == Init /\ [][NextScan]_vars /\ WF_loop(Pass)

\* the input of the parse has a token that is not trivia
HasToken == \E i \in 1..Len(Raw) : Raw[i].id \notin Trivia

(***************************************************************************)
(* C21: start_parse on an input without a non-trivia token (empty, or      *)
(* blanks, newlines and comments only) throws the end-of-input error, with *)
(* ended() true; on an input with a non-trivia token it returns normally.  *)
(***************************************************************************)
C21_StartParseEof ==
  op = "start_parse" =>
    IF HasToken
    THEN err = NoError
    ELSE /\ err = [kind |-> "EOF_REACHED", line |-> current_line_num_]
         /\ ended(Lexer)

\* start_parse threw on an input made of a newline, a blank and a comment
C21_Witness ==
  /\ op = "start_parse"
  /\ err.kind = "EOF_REACHED"
  /\ Len(input) = MaxScan
  /\ \E i, j, k \in 1..Len(Raw) :
       Raw[i].id = "NEWLINE" /\ Raw[j].id = "WS" /\ Raw[k].id = "COMMENT"

\* the consume_until call in progress returns or throws in this step
UntilReturns == loop.endpoint # "none" /\ loop'.endpoint = "none"

(***************************************************************************)
(* C22: consume_until(kind) terminates: a call in progress returns or      *)
(* throws, each pass of its loop that does not end it moves the current    *)
(* token forward in the input, and its outcome is the one of the loop run  *)
(* to its end.  When no                                                    *)
(* token of the kind is among the tokens still to come after the current   *)
(* one (the end of input counts as EOF_), the call throws the end-of-input *)
(* error with every remaining token discarded: the cursor is at the end of *)
(* input, and it has not moved when it was there at the call.              *)
(***************************************************************************)
C22_UntilTerminates ==
  /\ (loop.endpoint # "none") ~> (loop.endpoint = "none")
  /\ [][ (loop.endpoint # "none" /\ loop'.endpoint # "none") =>
           /\ PosOf(current_) < PosOf(current_)'
           /\ PosOf(current_)' <= Len(input) + 1
           /\ loop'.passes <= Len(input) + 1
       ]_vars
  /\ [][ UntilReturns =>
           /\ Lexer' = consume_until(sm, input, loop.from, loop.endpoint).c
           /\ err' = consume_until(sm, input, loop.from, loop.endpoint).err
       ]_vars
  /\ [][ \A t \in Kinds :
           ConsumeUntilK(t) =>
             LET U == Upcoming
             IN  (\A i \in 1..Len(U) : U[i].id # t) =>
                   /\ err' = [kind |-> "EOF_REACHED",
                              line |-> current_line_num_']
                   /\ current_' = End
                   /\ IF current_ = End THEN CursorUnchanged
                      ELSE MovedTo(U, Len(U))
       ]_vars

\* a consume_until(RPAREN) call, made with a number as current token and a
\* newline and a number still to come, has thrown the end-of-input error
\* after three evaluations of its loop condition
C22_Witness ==
  /\ op = "consume_until"
  /\ loop.endpoint = "none"
  /\ err.kind = "EOF_REACHED"
  /\ current_ = End
  /\ current_line_num_ > 1
  /\ \A i \in 1..Len(Raw) : Raw[i].id # "RPAREN"
  /\ Cardinality({i \in 1..Len(Raw) : Raw[i].id = "NUMBER"}) = 2

\* the lookahead is not behind the current token: at the end of input when
\* the current token is, not before it in the input, its line not smaller
LookaheadAhead ==
  /\ ended(Lexer) => next_ = End
  /\ PosOf(current_) <= PosOf(next_)
  /\ current_line_num_ <= next_line_num_

\* no operation makes a line counter smaller
LinesGrow ==
  [][ /\ current_line_num_ <= current_line_num_'
      /\ next_line_num_ <= next_line_num_' ]_vars

(***************************************************************************)
(* C23: in every state after a start_parse call the lookahead is not       *)
(* behind the current token: peek() is end-of-input when ended() is true   *)
(* and line_num() is at most the lookahead line; and no operation makes a  *)
(* line counter smaller.                                                   *)
(***************************************************************************)
C23_LookaheadAhead == [](parses > 0 => LookaheadAhead) /\ LinesGrow

(***************************************************************************)
(* The section types as the Python module names them.                      *)
(***************************************************************************)
\* py::enum_<morphio::enums::SectionType>(m, "SectionType")
SectionType ==
  [undefined       |-> "SECTION_UNDEFINED",
   soma            |-> "SECTION_SOMA",
   axon            |-> "SECTION_AXON",
   basal_dendrite  |-> "SECTION_DENDRITE",
   apical_dendrite |-> "SECTION_APICAL_DENDRITE"]

\* TokenToSectionType has thrown its RawDataError and returned nothing
NotConverted == err.kind = "COULD_NOT_CONVERT" /\ section = "none"

(***************************************************************************)
(* C24: TokenToSectionType applied to the current token returns axon for   *)
(* AXON, basal_dendrite for DENDRITE and apical_dendrite for APICAL, and   *)
(* throws a RawDataError for a token of any other kind, CELLBODY included; *)
(* it never returns undefined or soma.                                     *)
(***************************************************************************)
C24_SectionTypes ==
  op = "TokenToSectionType" =>
    /\ CASE current_.id = "AXON" ->
              err = NoError /\ section = SectionType.axon
         [] current_.id = "DENDRITE" ->
              err = NoError /\ section = SectionType.basal_dendrite
         [] current_.id = "APICAL" ->
              err = NoError /\ section = SectionType.apical_dendrite
         [] OTHER -> NotConverted
    /\ section \notin {SectionType.undefined, SectionType.soma}

\* the conversion of a CELLBODY token has thrown
C24_Witness ==
  /\ op = "TokenToSectionType"
  /\ current_.id = "CELLBODY"
  /\ NotConverted

(***************************************************************************)
(* C25: the word rule catches every alphanumeric word.  After start_parse  *)
(* of an input that is one run of letters and digits, starts with a letter *)
(* and is not a reserved word, the current token is the whole input as one *)
(* WORD and nothing follows, whatever the length of the run, one letter    *)
(* included.                                                               *)
(***************************************************************************)
C25_WordCatchAll ==
  (/\ op = "start_parse"
   /\ Len(input) > 0
   /\ Alphanumeric
   /\ input[1] \in Lower \cup Upper
   /\ input \notin ReservedWords) =>
     /\ err = NoError
     /\ current_ = Whole("WORD")
     /\ next_ = End

====
